---- MODULE Spec2Model ----
(***************************************************************************)
(* Model of the ST-Link debug-probe driver, probe-rs/src/probe/stlink/     *)
(* mod.rs: the STLink struct, its DebugProbe and DAPAccess operations and   *)
(* the private helpers they call.  Every public operation is one action;    *)
(* the transport (device.write / device.reset) is the environment, whose    *)
(* answers are the \E-bound inputs of each action.                          *)
(***************************************************************************)
EXTENDS Integers, Sequences, FiniteSets, TLC

VARIABLES
    phase,          \* "new" | "ready" | "failed" | "panicked" | "dropped"
    hw_version,     \* STLink.hw_version
    jtag_version,   \* STLink.jtag_version
    protocol,       \* STLink.protocol: "Swd" | "Jtag"
    swd_speed_khz,  \* STLink.swd_speed_khz
    jtag_speed_khz, \* STLink.jtag_speed_khz
    current_ap,     \* STLink.current_ap: <<>> is None, <<n>> is Some(n)
    opened,         \* probe side: AP selects with an open session
    last,           \* the call that produced this state
    prev            \* summary of the call before it

vars == <<phase, hw_version, jtag_version, protocol, swd_speed_khz,
          jtag_speed_khz, current_ap, opened, last, prev>>

----------------------------------------------------------------------------
(* Bounds of the exploration.                                              *)

\* Access Ports 0 .. MaxAp are addressed (besides AccessPort(256), whose
\* `as u8` select byte collides with AccessPort(0)).
MaxAp == 1

----------------------------------------------------------------------------
(* Values.                                                                 *)

None == <<>>
Some(x) == <<x>>

DebugPort == <<"DP", 0>>
AccessPort(n) == <<"AP", n>>

Ok(v) == [ok |-> TRUE, err |-> "", val |-> v]
Err(e, v) == [ok |-> FALSE, err |-> e, val |-> v]

\* `x as u8`
AsU8(x) == x % 256

\* u16::from(PortType)
PortToU16(port) == IF port = DebugPort THEN 65535 ELSE port[2]

\* Status::JtagOk
JtagOk == 128

\* the discriminants Status::from_u8 recognises
KnownStatus ==
    {JtagOk} \cup (1 .. 14) \cup (16 .. 26) \cup {32, 65, 66}

\* STLink::MIN_JTAG_VERSION
MIN_JTAG_VERSION == 24

\* STLink::MIN_JTAG_VERSION_MULTI_AP
MIN_JTAG_VERSION_MULTI_AP == 28

----------------------------------------------------------------------------
(* The transport.  A call of an operation sends commands number 1, 2, ...;  *)
(* `fail` names the one command of the call that does not succeed and what  *)
(* comes back for it: <<>> when device.write returns a transport error,     *)
(* <<b>> when the response arrives with b as its byte 0.                    *)

NoFail == [at |-> 0, how |-> <<JtagOk>>]

\* what device.write yields for command number i when it carries a status
Resp(fail, i) == IF fail.at = i THEN fail.how ELSE <<JtagOk>>

\* whether device.write succeeds for command number i
Sent(fail, i) == ~(fail.at = i /\ fail.how = <<>>)

Entry(cmd, arg, r) == [cmd |-> cmd, arg |-> arg, resp |-> r]

\* check_status reading the second byte of the response
check_status_second(status) ==
    IF status[2] \in KnownStatus
    THEN IF status[2] # JtagOk
         THEN Err("CommandFailed", status[2])
         ELSE Ok(0)
    ELSE Err("CommandFailed", -1)

\* STLink::check_status
check_status(status) ==
    IF status[1] \in KnownStatus
    THEN IF status[1] # JtagOk
         THEN Err("CommandFailed", status[1])
         ELSE Ok(0)
    ELSE Err("CommandFailed", -1)

\* a command that is sent once more when it did not succeed
Command_retry(cmd, arg, r) ==
    IF r = <<>> \/ ~check_status(r).ok
    THEN [cmds |-> <<Entry(cmd, arg, r), Entry(cmd, arg, <<JtagOk>>)>>,
          res  |-> Ok(0)]
    ELSE [cmds |-> <<Entry(cmd, arg, r)>>, res |-> Ok(0)]

\* device.write(cmd, ..)? followed by Self::check_status(&buf)
Command(cmd, arg, r) ==
    [cmds |-> <<Entry(cmd, arg, r)>>,
     res  |-> IF r = <<>> THEN Err("USB", 0) ELSE check_status(r)]

Self ==
    [hw_version |-> hw_version, jtag_version |-> jtag_version,
     protocol |-> protocol, swd_speed_khz |-> swd_speed_khz,
     jtag_speed_khz |-> jtag_speed_khz, current_ap |-> current_ap]

----------------------------------------------------------------------------
(* AP sessions.                                                            *)

\* the guard with the minimum firmware version of the driver in place of
\* that of multi-AP support
MultiApUnsupported_min(self) ==
    self.hw_version < 3 /\ self.jtag_version < MIN_JTAG_VERSION

MultiApUnsupported_hwonly(self) == self.hw_version < 3

\* the guard of open_ap and close_ap
MultiApUnsupported(self) ==
    self.hw_version < 3 /\ self.jtag_version < MIN_JTAG_VERSION_MULTI_AP

\* STLink::open_ap, sent as command number k + 1 of the call
open_ap(self, apsel, k, fail) ==
    IF MultiApUnsupported(self)
    THEN [cmds |-> <<>>, res |-> Err("JTagDoesNotSupportMultipleAP", 0)]
    ELSE Command("JTAG_INIT_AP", <<apsel>>, Resp(fail, k + 1))

\* STLink::close_ap, sent as command number k + 1 of the call
close_ap(self, apsel, k, fail) ==
    IF MultiApUnsupported(self)
    THEN [cmds |-> <<>>, res |-> Err("JTagDoesNotSupportMultipleAP", 0)]
    ELSE Command("JTAG_CLOSE_AP_DBG", <<apsel>>, Resp(fail, k + 1))

ap_switch_noclose(self, port_number, fail) ==
    IF self.current_ap # None /\ self.current_ap[1] = port_number
    THEN [self |-> self, cmds |-> <<>>, res |-> Ok(0)]
    ELSE LET o == open_ap(self, AsU8(port_number), 0, fail)
         IN  IF o.res.ok
             THEN [self |-> [self EXCEPT !.current_ap = Some(port_number)],
                   cmds |-> o.cmds, res |-> Ok(0)]
             ELSE [self |-> self, cmds |-> o.cmds, res |-> o.res]

ap_switch_early(self, port_number, fail) ==
    LET o == open_ap(self, AsU8(port_number), 0, fail)
    IN  IF self.current_ap # None /\ self.current_ap[1] = port_number
        THEN [self |-> self, cmds |-> <<>>, res |-> Ok(0)]
        ELSE [self |-> [self EXCEPT !.current_ap = Some(port_number)],
              cmds |-> o.cmds, res |-> o.res]

\* the `if let PortType::AccessPort(port_number) = port { .. }` block of
\* read_register and of write_register (the two are the same text)
ap_switch(self, port_number, fail) ==
    IF self.current_ap # None
    THEN IF self.current_ap[1] # port_number
         THEN LET c == close_ap(self, AsU8(self.current_ap[1]), 0, fail)
              IN  IF ~c.res.ok
                  THEN [self |-> self, cmds |-> c.cmds, res |-> c.res]
                  ELSE LET o == open_ap(self, AsU8(port_number),
                                        Len(c.cmds), fail)
                       IN  IF ~o.res.ok
                           THEN [self |-> self, cmds |-> c.cmds \o o.cmds,
                                 res |-> o.res]
                           ELSE [self |-> [self EXCEPT
                                             !.current_ap = Some(port_number)],
                                 cmds |-> c.cmds \o o.cmds, res |-> Ok(0)]
         ELSE [self |-> [self EXCEPT !.current_ap = Some(port_number)],
               cmds |-> <<>>, res |-> Ok(0)]
    ELSE LET o == open_ap(self, AsU8(port_number), 0, fail)
         IN  IF ~o.res.ok
             THEN [self |-> self, cmds |-> o.cmds, res |-> o.res]
             ELSE [self |-> [self EXCEPT !.current_ap = Some(port_number)],
                   cmds |-> o.cmds, res |-> Ok(0)]

DpBlank_anyhigh(port, addr) == addr >= 16 /\ port = DebugPort

\* the negation of `(addr & 0xf0) == 0 || port != PortType::DebugPort`
DpBlank(port, addr) == (addr \div 16) % 16 # 0 /\ port = DebugPort

dap_register_setlate(self, port, addr, xfer, fail) ==
    IF ~DpBlank(port, addr)
    THEN LET sw == IF port[1] = "AP"
                   THEN ap_switch(self, port[2], fail)
                   ELSE [self |-> self, cmds |-> <<>>, res |-> Ok(0)]
         IN  IF ~sw.res.ok
             THEN sw
             ELSE LET x == Command(xfer, <<PortToU16(port), addr>>,
                                   Resp(fail, Len(sw.cmds) + 1))
                  IN  [self |-> IF x.res.ok THEN sw.self ELSE self,
                       cmds |-> sw.cmds \o x.cmds, res |-> x.res]
    ELSE [self |-> self, cmds |-> <<>>,
          res |-> Err("BlanksNotAllowedOnDPRegister", 0)]

\* the body shared by read_register and write_register; xfer is
\* JTAG_READ_DAP_REG or JTAG_WRITE_DAP_REG
dap_register(self, port, addr, xfer, fail) ==
    IF ~DpBlank(port, addr)
    THEN LET sw == IF port[1] = "AP"
                   THEN ap_switch(self, port[2], fail)
                   ELSE [self |-> self, cmds |-> <<>>, res |-> Ok(0)]
         IN  IF ~sw.res.ok
             THEN sw
             ELSE LET x == Command(xfer, <<PortToU16(port), addr>>,
                                   Resp(fail, Len(sw.cmds) + 1))
                  IN  [self |-> sw.self, cmds |-> sw.cmds \o x.cmds,
                       res |-> x.res]
    ELSE [self |-> self, cmds |-> <<>>,
          res |-> Err("BlanksNotAllowedOnDPRegister", 0)]

\* DAPAccess::read_register.  The register value it returns (the last four
\* bytes of the answer) and the value write_register sends are carried
\* through unchanged by the driver and are left out of the call's record.
read_register(self, port, addr, fail) ==
    dap_register(self, port, addr, "JTAG_READ_DAP_REG", fail)

\* DAPAccess::write_register
write_register(self, port, addr, fail) ==
    dap_register(self, port, addr, "JTAG_WRITE_DAP_REG", fail)

RECURSIVE ProbeSessions(_, _)
\* the probe's open AP sessions after it has answered cmds: a JTAG_INIT_AP it
\* answers with JtagOk opens the select byte's session, a JTAG_CLOSE_AP_DBG
\* it answers with JtagOk closes it
ProbeSessions(open, cmds) ==
    IF cmds = <<>> THEN open
    ELSE LET e == Head(cmds)
             o == IF e.resp # <<JtagOk>> THEN open
                  ELSE IF e.cmd = "JTAG_INIT_AP" THEN open \cup {e.arg[1]}
                  ELSE IF e.cmd = "JTAG_CLOSE_AP_DBG" THEN open \ {e.arg[1]}
                  ELSE open
         IN  ProbeSessions(o, Tail(cmds))

----------------------------------------------------------------------------
(* Speed negotiation.                                                      *)

\* constants::SwdFrequencyToDelayCount as <<kHz, delay count>>
SwdFrequencyToDelayCount ==
    {<<4600, 0>>, <<1800, 1>>, <<1200, 2>>, <<950, 3>>, <<650, 5>>,
     <<480, 7>>, <<400, 9>>, <<360, 10>>, <<240, 15>>, <<150, 25>>,
     <<125, 31>>, <<100, 40>>}

\* constants::JTagFrequencyToDivider as <<kHz, divider>>
JTagFrequencyToDivider ==
    {<<18000, 2>>, <<9000, 4>>, <<4500, 8>>, <<2250, 16>>, <<1120, 32>>,
     <<560, 64>>, <<280, 128>>, <<140, 256>>}

\* find_setting of either table: the setting of the fastest entry that does
\* not exceed the request, None when every entry exceeds it
find_setting(table, speed_khz) ==
    LET fit == {e \in table : e[1] <= speed_khz}
    IN  IF fit = {} THEN None
        ELSE Some((CHOOSE e \in fit : \A f \in fit : f[1] <= e[1])[2])

\* to_khz of either table
to_khz(table, setting) == (CHOOSE e \in table : e[2] = setting)[1]

\* STLink::set_swd_frequency
set_swd_frequency(frequency, k, fail) ==
    Command("SWD_SET_FREQ", <<AsU8(frequency)>>, Resp(fail, k + 1))

\* STLink::set_jtag_frequency
set_jtag_frequency(frequency, k, fail) ==
    Command("JTAG_SET_FREQ", <<AsU8(frequency)>>, Resp(fail, k + 1))

\* a panic: the call does not return and the driver is used no further; the
\* value tells unimplemented!() (0) from a failed assert_eq! (1)
Panic(cmds) == [cmds |-> cmds, res |-> Err("panic", 0)]

\* assert_eq!(self.hw_version, 3) failing
AssertFailed(cmds) == [cmds |-> cmds, res |-> Err("panic", 1)]

CmdProto(proto) == IF proto = "Swd" THEN 0 ELSE 1

\* Vec::rotate_left
RotateLeft(s, n) == SubSeq(s, n + 1, Len(s)) \o SubSeq(s, 1, n)

\* Vec::truncate
Truncate(s, n) == IF n < Len(s) THEN SubSeq(s, 1, n) ELSE s

Min(a, b) == IF a < b THEN a ELSE b

\* STLink::set_communication_frequency
set_communication_frequency(self, proto, frequency_khz, k, fail) ==
    IF self.hw_version # 3
    THEN AssertFailed(<<>>)
    ELSE Command("SET_COM_FREQ", <<CmdProto(proto), frequency_khz>>, Resp(fail, k + 1))

AvailableOf_norotate(values) == Truncate(values, Min(values[3], 10))

\* the tail of get_communication_frequencies: values are the 13 words of the
\* 52-byte response (values[1] is word 0)
AvailableOf(values) == Truncate(RotateLeft(values, 3), Min(values[3], 10))

\* STLink::get_communication_frequencies; words is what the probe answers
get_communication_frequencies(self, proto, k, fail, words) ==
    IF self.hw_version # 3
    THEN AssertFailed(<<>>) @@ [available |-> <<>>, current |-> 0]
    ELSE LET c == Command("GET_COM_FREQ", <<CmdProto(proto)>>, Resp(fail, k + 1))
         IN  IF ~c.res.ok
             THEN c @@ [available |-> <<>>, current |-> 0]
             ELSE c @@ [available |-> AvailableOf(words),
                        current |-> words[2]]

\* the slowest of the available speeds that do not exceed the request
Chosen_min(available, speed_khz) ==
    LET fit == {x \in {available[i] : i \in 1 .. Len(available)} :
                  x <= speed_khz}
    IN  IF fit = {} THEN None
        ELSE Some(CHOOSE x \in fit : \A y \in fit : x <= y)

\* available.into_iter().filter(|speed| *speed <= speed_khz).max()
Chosen(available, speed_khz) ==
    LET fit == {x \in {available[i] : i \in 1 .. Len(available)} :
                  x <= speed_khz}
    IN  IF fit = {} THEN None
        ELSE Some(CHOOSE x \in fit : \A y \in fit : y <= x)

Table(proto) ==
    IF proto = "Swd" THEN SwdFrequencyToDelayCount ELSE JTagFrequencyToDivider

\* recording a speed in the fields of both modes
WithSpeed_both(self, khz) ==
    [self EXCEPT !.swd_speed_khz = khz, !.jtag_speed_khz = khz]

WithSpeed(self, khz) ==
    IF self.protocol = "Swd"
    THEN [self EXCEPT !.swd_speed_khz = khz]
    ELSE [self EXCEPT !.jtag_speed_khz = khz]

Achieved_requested(table, setting, speed_khz) == speed_khz

\* actual_speed.to_khz(), the value set_speed records and returns below v3
Achieved(table, setting, speed_khz) == to_khz(table, setting)

\* set_speed, hw_version < 3
set_speed_v2(self, speed_khz, k, fail) ==
    LET table == Table(self.protocol)
        actual_speed == find_setting(table, speed_khz)
    IN  IF actual_speed # None
        THEN LET c == IF self.protocol = "Swd"
                      THEN set_swd_frequency(actual_speed[1], k, fail)
                      ELSE set_jtag_frequency(actual_speed[1], k, fail)
                 khz == Achieved(table, actual_speed[1], speed_khz)
             IN  IF ~c.res.ok
                 THEN [self |-> self, cmds |-> c.cmds, res |-> c.res]
                 ELSE [self |-> WithSpeed(self, khz), cmds |-> c.cmds,
                       res |-> Ok(khz)]
        ELSE [self |-> self, cmds |-> <<>>,
              res |-> Err("UnsupportedSpeed", speed_khz)]

\* set_speed, hw_version == 3
set_speed_v3(self, speed_khz, k, fail, words) ==
    LET g == get_communication_frequencies(self, self.protocol, k, fail, words)
    IN  IF ~g.res.ok
        THEN [self |-> self, cmds |-> g.cmds, res |-> g.res]
        ELSE LET actual_speed_khz == Chosen(g.available, speed_khz)
             IN  IF actual_speed_khz = None
                 THEN [self |-> self, cmds |-> g.cmds,
                       res |-> Err("UnsupportedSpeed", speed_khz)]
                 ELSE LET c == set_communication_frequency(self,
                                 self.protocol, actual_speed_khz[1],
                                 k + 1, fail)
                      IN  IF ~c.res.ok
                          THEN [self |-> self, cmds |-> g.cmds \o c.cmds,
                                res |-> c.res]
                          ELSE [self |-> WithSpeed(self, actual_speed_khz[1]),
                                cmds |-> g.cmds \o c.cmds,
                                res |-> Ok(actual_speed_khz[1])]

\* set_speed taking every hardware version from 3 on for version 3
set_speed_from3(self, speed_khz, k, fail, words) ==
    IF self.hw_version < 3
    THEN set_speed_v2(self, speed_khz, k, fail)
    ELSE set_speed_v3(self, speed_khz, k, fail, words)

\* DebugProbe::set_speed, its commands numbered from k + 1
set_speed(self, speed_khz, k, fail, words) ==
    IF self.hw_version < 3
    THEN set_speed_v2(self, speed_khz, k, fail)
    ELSE IF self.hw_version = 3
         THEN set_speed_v3(self, speed_khz, k, fail, words)
         ELSE [self |-> self] @@ Panic(<<>>)

----------------------------------------------------------------------------
(* Mode, version, voltage, initialisation.                                 *)

\* enter_idle taking a mode byte it does not know for an idle mode
enter_idle_anymode(k, fail, mode) ==
    IF ~Sent(fail, k + 1)
    THEN [cmds |-> <<Entry("GET_CURRENT_MODE", <<>>, <<>>)>>,
          res |-> Err("USB", 0)]
    ELSE LET q == <<Entry("GET_CURRENT_MODE", <<>>, <<mode>>)>>
             x == IF mode = 0 THEN "DFU_EXIT" ELSE "SWIM_EXIT"
         IN  IF mode \in {0, 3}
             THEN IF Sent(fail, k + 2)
                  THEN [cmds |-> q \o <<Entry(x, <<>>, <<0>>)>>,
                        res |-> Ok(0)]
                  ELSE [cmds |-> q \o <<Entry(x, <<>>, <<>>)>>,
                        res |-> Err("USB", 0)]
             ELSE [cmds |-> q, res |-> Ok(0)]

\* STLink::get_current_mode followed by the match of enter_idle; mode is
\* byte 0 of the probe's answer
enter_idle(k, fail, mode) ==
    IF ~Sent(fail, k + 1)
    THEN [cmds |-> <<Entry("GET_CURRENT_MODE", <<>>, <<>>)>>,
          res |-> Err("USB", 0)]
    ELSE LET q == <<Entry("GET_CURRENT_MODE", <<>>, <<mode>>)>>
         IN  IF mode \notin 0 .. 3
             THEN [cmds |-> q, res |-> Err("UnknownMode", 0)]
             ELSE IF mode = 0
             THEN IF Sent(fail, k + 2)
                  THEN [cmds |-> q \o <<Entry("DFU_EXIT", <<>>, <<0>>)>>,
                        res |-> Ok(0)]
                  ELSE [cmds |-> q \o <<Entry("DFU_EXIT", <<>>, <<>>)>>,
                        res |-> Err("USB", 0)]
             ELSE IF mode = 3
             THEN IF Sent(fail, k + 2)
                  THEN [cmds |-> q \o <<Entry("SWIM_EXIT", <<>>, <<0>>)>>,
                        res |-> Ok(0)]
                  ELSE [cmds |-> q \o <<Entry("SWIM_EXIT", <<>>, <<>>)>>,
                        res |-> Err("USB", 0)]
             ELSE [cmds |-> q, res |-> Ok(0)]

\* (version >> HW_VERSION_SHIFT) as u8 & HW_VERSION_MASK
HwVersionOf(version) == AsU8(version \div 4096) % 16

\* the firmware field without its mask
JtagVersionOf_nomask(version) == AsU8(version \div 64)

\* (version >> JTAG_VERSION_SHIFT) as u8 & JTAG_VERSION_MASK
JtagVersionOf(version) == AsU8(version \div 64) % 64

\* the checks that end get_version, without the minimum firmware version
VersionVerdict_nomin(self) ==
    IF self.jtag_version = 0
    THEN Err("JTAGNotSupportedOnProbe", 0)
    ELSE Ok(0)

\* the checks that end get_version
VersionVerdict(self) ==
    IF self.jtag_version = 0
    THEN Err("JTAGNotSupportedOnProbe", 0)
    ELSE IF self.hw_version < 3 /\ self.jtag_version < MIN_JTAG_VERSION
         THEN Err("ProbeFirmwareOutdated", 0)
         ELSE Ok(0)

\* STLink::get_version; version is the big-endian word of the answer to
\* GET_VERSION, ext is byte 2 of the answer to GET_VERSION_EXT
get_version(self, k, fail, version, ext) ==
    IF ~Sent(fail, k + 1)
    THEN [self |-> self, cmds |-> <<Entry("GET_VERSION", <<>>, <<>>)>>,
          res |-> Err("USB", 0)]
    ELSE LET s1 == [self EXCEPT !.hw_version = HwVersionOf(version),
                                !.jtag_version = JtagVersionOf(version)]
             c1 == <<Entry("GET_VERSION", <<>>, <<version>>)>>
         IN  IF s1.hw_version >= 3
             THEN IF ~Sent(fail, k + 2)
                  THEN [self |-> s1,
                        cmds |-> c1 \o <<Entry("GET_VERSION_EXT", <<>>, <<>>)>>,
                        res |-> Err("USB", 0)]
                  ELSE LET s2 == [s1 EXCEPT !.jtag_version = ext]
                       IN  [self |-> s2,
                            cmds |-> c1 \o
                                     <<Entry("GET_VERSION_EXT", <<>>, <<ext>>)>>,
                            res |-> VersionVerdict(s2)]
             ELSE [self |-> s1, cmds |-> c1, res |-> VersionVerdict(s1)]

\* STLink::get_target_voltage; a0 is the first sample word of the answer
get_target_voltage(k, fail, a0) ==
    IF ~Sent(fail, k + 1)
    THEN [cmds |-> <<Entry("GET_TARGET_VOLTAGE", <<>>, <<>>)>>,
          res |-> Err("USB", 0)]
    ELSE [cmds |-> <<Entry("GET_TARGET_VOLTAGE", <<>>, <<a0>>)>>,
          res |-> IF a0 # 0 THEN Ok(0) ELSE Err("VoltageDivisionByZero", 0)]

\* init from `let version = self.get_version()?` on, its commands numbered
\* from k + 1
init_rest(self, k, fail, version, ext, wordsSwd, wordsJtag, a0) ==
    LET v == get_version(self, k, fail, version, ext)
    IN  IF ~v.res.ok THEN v
        ELSE IF v.self.hw_version = 3
        THEN LET g1 == get_communication_frequencies(v.self, "Swd",
                           k + Len(v.cmds), fail, wordsSwd)
                 s1 == [v.self EXCEPT !.swd_speed_khz = g1.current]
             IN  IF ~g1.res.ok
                 THEN [self |-> v.self, cmds |-> v.cmds \o g1.cmds,
                       res |-> g1.res]
                 ELSE LET g2 == get_communication_frequencies(s1, "Jtag",
                                    k + Len(v.cmds) + 1, fail, wordsJtag)
                          s2 == [s1 EXCEPT !.jtag_speed_khz = g2.current]
                      IN  IF ~g2.res.ok
                          THEN [self |-> s1,
                                cmds |-> v.cmds \o g1.cmds \o g2.cmds,
                                res |-> g2.res]
                          ELSE LET t == get_target_voltage(
                                            k + Len(v.cmds) + 2, fail, a0)
                               IN  [self |-> s2,
                                    cmds |-> v.cmds \o g1.cmds \o g2.cmds
                                             \o t.cmds,
                                    res |-> t.res]
        ELSE LET t == get_target_voltage(k + Len(v.cmds), fail, a0)
             IN  [self |-> v.self, cmds |-> v.cmds \o t.cmds, res |-> t.res]

\* init resetting and retrying after any error of the first enter_idle
init_anyerror(self, fail0, mode0, resetOk, fail, mode, version, ext, wordsSwd, wordsJtag, a0) ==
    LET i1 == enter_idle(0, fail0, mode0)
    IN  IF ~i1.res.ok
        THEN IF ~resetOk
             THEN [self |-> self,
                   cmds |-> i1.cmds \o <<Entry("RESET", <<>>, <<>>)>>,
                   res |-> Err("USB", 0)]
             ELSE LET i2 == enter_idle(0, fail, mode)
                      c2 == i1.cmds \o <<Entry("RESET", <<>>, <<0>>)>>
                            \o i2.cmds
                  IN  IF ~i2.res.ok
                      THEN [self |-> self, cmds |-> c2, res |-> i2.res]
                      ELSE LET r == init_rest(self, Len(i2.cmds), fail,
                                        version, ext, wordsSwd, wordsJtag, a0)
                           IN  [self |-> r.self, cmds |-> c2 \o r.cmds,
                                res |-> r.res]
        ELSE LET r == init_rest(self, 0, fail, version, ext, wordsSwd,
                                wordsJtag, a0)
             IN  [self |-> r.self, cmds |-> i1.cmds \o r.cmds, res |-> r.res]

\* STLink::init.  fail0 and mode0 are the transport's answers to the first
\* enter_idle; resetOk that of device.reset; fail and mode those of every
\* command after it, numbered from 1
init(self, fail0, mode0, resetOk, fail, mode, version, ext, wordsSwd, wordsJtag, a0) ==
    LET i1 == enter_idle(0, fail0, mode0)
    IN  IF ~i1.res.ok
        THEN IF i1.res.err = "USB"
             THEN IF ~resetOk
                  THEN [self |-> self,
                        cmds |-> i1.cmds \o <<Entry("RESET", <<>>, <<>>)>>,
                        res |-> Err("USB", 0)]
                  ELSE LET i2 == enter_idle(0, fail, mode)
                           c2 == i1.cmds \o <<Entry("RESET", <<>>, <<0>>)>>
                                 \o i2.cmds
                       IN  IF ~i2.res.ok
                           THEN [self |-> self, cmds |-> c2, res |-> i2.res]
                           ELSE LET r == init_rest(self, Len(i2.cmds), fail,
                                             version, ext, wordsSwd,
                                             wordsJtag, a0)
                                IN  [self |-> r.self, cmds |-> c2 \o r.cmds,
                                     res |-> r.res]
             ELSE [self |-> self, cmds |-> i1.cmds, res |-> i1.res]
        ELSE LET r == init_rest(self, 0, fail, version, ext, wordsSwd,
                                wordsJtag, a0)
             IN  [self |-> r.self, cmds |-> i1.cmds \o r.cmds, res |-> r.res]

----------------------------------------------------------------------------
(* The other DebugProbe operations.                                        *)

\* DebugProbe::speed
speed(self) ==
    IF self.protocol = "Swd" THEN self.swd_speed_khz ELSE self.jtag_speed_khz

\* attach going on to the speed negotiation whatever status the mode-entry
\* command came back with
attach_unchecked(self, fail, mode, words) ==
    LET i == enter_idle(0, fail, mode)
    IN  IF ~i.res.ok
        THEN [self |-> self, cmds |-> i.cmds, res |-> i.res]
        ELSE LET param == IF self.protocol = "Jtag"
                          THEN "JTAG_ENTER_JTAG_NO_CORE_RESET"
                          ELSE "JTAG_ENTER_SWD"
                 e == Command(param, <<>>, Resp(fail, Len(i.cmds) + 1))
             IN  IF e.cmds[1].resp = <<>>
                 THEN [self |-> self, cmds |-> i.cmds \o e.cmds,
                       res |-> e.res]
                 ELSE LET s == set_speed(self, speed(self),
                                         Len(i.cmds) + 1, fail, words)
                      IN  [self |-> s.self,
                           cmds |-> i.cmds \o e.cmds \o s.cmds,
                           res |-> IF s.res.ok THEN Ok(0) ELSE s.res]

\* DebugProbe::attach
attach(self, fail, mode, words) ==
    LET i == enter_idle(0, fail, mode)
    IN  IF ~i.res.ok
        THEN [self |-> self, cmds |-> i.cmds, res |-> i.res]
        ELSE LET param == IF self.protocol = "Jtag"
                          THEN "JTAG_ENTER_JTAG_NO_CORE_RESET"
                          ELSE "JTAG_ENTER_SWD"
                 e == Command(param, <<>>, Resp(fail, Len(i.cmds) + 1))
             IN  IF ~e.res.ok
                 THEN [self |-> self, cmds |-> i.cmds \o e.cmds,
                       res |-> e.res]
                 ELSE LET s == set_speed(self, speed(self),
                                         Len(i.cmds) + 1, fail, words)
                      IN  [self |-> s.self,
                           cmds |-> i.cmds \o e.cmds \o s.cmds,
                           res |-> IF s.res.ok THEN Ok(0) ELSE s.res]

\* DebugProbe::detach
detach(self, fail, mode) ==
    [self |-> self] @@ enter_idle(0, fail, mode)

\* DebugProbe::target_reset
target_reset(self, fail) ==
    [self |-> self] @@ Command("JTAG_DRIVE_NRST", <<>>, Resp(fail, 1))

\* select_protocol that selects SWD whatever it is asked for
select_protocol_fixed(self, proto) ==
    [self |-> [self EXCEPT !.protocol = "Swd"], cmds |-> <<>>, res |-> Ok(0)]

\* DebugProbe::select_protocol
select_protocol(self, proto) ==
    [self |-> [self EXCEPT !.protocol = proto], cmds |-> <<>>, res |-> Ok(0)]

\* a teardown that hands on the result of enter_idle
drop_reporting(self, fail, mode) ==
    [self |-> self] @@ enter_idle(0, fail, mode)

\* Drop::drop: the result of enter_idle is discarded
drop(self, fail, mode) ==
    [self |-> self, cmds |-> enter_idle(0, fail, mode).cmds, res |-> Ok(0)]

----------------------------------------------------------------------------
(* Inputs.                                                                 *)

Ports ==
    {DebugPort} \cup {AccessPort(n) : n \in 0 .. MaxAp} \cup {AccessPort(256)}

\* register addresses: 0x04, 0x10 and 0x104 on the Debug Port, 0x10 on an
\* Access Port
AddrsOf(port) == IF port = DebugPort THEN {4, 16, 260} ELSE {16}

\* a transport error, a known failure status (SwdApFault), an unknown byte
FailHow == {<<>>, <<17>>, <<255>>}

Failures(n) == {NoFail} \cup {[at |-> i, how |-> h] : i \in 1 .. n, h \in FailHow}

\* a register access sends one command on the Debug Port, up to three on an
\* Access Port
FailuresOf(port) == IF port = DebugPort THEN Failures(1) ELSE Failures(3)

\* answers to GET_CURRENT_MODE: Dfu, MassStorage, Jtag, Swim, unknown
ModeBytes == 0 .. 4

\* requested speeds in kHz
Requests == {0, 130, 1120, 2000, 30000}

\* answers to GET_VERSION: hw 2 with firmware 24, 28, 23 and 0; 0x3190 (hw 3);
\* hw 4
VersionWords == {9728, 9984, 9664, 8197, 12688, 16784}

\* byte 2 of the answer to GET_VERSION_EXT
ExtBytes == {0, 30}

\* answers to GET_COM_FREQ as 13 words: word 1 the current frequency, word 2
\* the count, words 3 .. 12 the list (3 entries then stale words, the
\* current frequency not one of the entries; 12 claimed entries, of which
\* the 10 words are taken, in no order; no entry)
FreqWords ==
    {<<128, 800, 3, 4000, 1000, 200, 9999, 0, 0, 0, 0, 0, 0>>,
     <<128, 200, 12, 200, 4000, 1000, 50, 50, 50, 50, 50, 50, 60>>,
     <<128, 800, 0, 4000, 1000, 200, 0, 0, 0, 0, 0, 0, 0>>}

NoWords == <<>>

WordsFor(hw) == IF hw = 3 THEN FreqWords ELSE {NoWords}

\* first sample word of the answer to GET_TARGET_VOLTAGE
Samples == {0, 1000}

----------------------------------------------------------------------------
(* Actions.                                                                *)

\* the record of a call: addr is the register address of a register access,
\* the requested speed of set_speed, the mode asked of select_protocol (0
\* for SWD, 1 for JTAG)
Call(op, port, addr, words) ==
    [op |-> op, port |-> port, addr |-> addr, words |-> words,
     cur |-> current_ap]

NoPrev == [op |-> "none", port |-> DebugPort, ok |-> TRUE]

RegisterOps == {"read_register", "write_register"}

\* the state after a call that came back as r
Finish(call, r, donePhase) ==
    /\ phase' = IF r.res.err = "panic" THEN "panicked" ELSE donePhase
    /\ hw_version' = r.self.hw_version
    /\ jtag_version' = r.self.jtag_version
    /\ protocol' = r.self.protocol
    /\ swd_speed_khz' = r.self.swd_speed_khz
    /\ jtag_speed_khz' = r.self.jtag_speed_khz
    /\ current_ap' = r.self.current_ap
    /\ opened' = ProbeSessions(opened, r.cmds)
    /\ last' = call @@ [cmds |-> r.cmds, res |-> r.res]
    /\ prev' = IF last.op \in RegisterOps
               THEN [op |-> last.op, port |-> last.port, ok |-> last.res.ok]
               ELSE NoPrev

\* the struct literal of new_from_probe_info
Fresh ==
    [hw_version |-> 0, jtag_version |-> 0, protocol |-> "Swd",
     swd_speed_khz |-> 1800, jtag_speed_khz |-> 1120, current_ap |-> None]

NewCall ==
    [op |-> "new", port |-> DebugPort, addr |-> 0, words |-> NoWords,
     cur |-> None, cmds |-> <<>>, res |-> Ok(0)]

Init ==
    /\ phase = "new"
    /\ hw_version = Fresh.hw_version
    /\ jtag_version = Fresh.jtag_version
    /\ protocol = Fresh.protocol
    /\ swd_speed_khz = Fresh.swd_speed_khz
    /\ jtag_speed_khz = Fresh.jtag_speed_khz
    /\ current_ap = Fresh.current_ap
    /\ opened = {}
    /\ last = NewCall
    /\ prev = NoPrev

\* what the transport may answer during init, and what init makes of it
InitRuns ==
    {init(Fresh, x[1], x[2], x[3], x[4], x[5], x[6], x[7], x[8], x[9], x[10]) :
       x \in UNION { UNION {
         {NoFail} \X {mode0} \X {TRUE} \X Failures(7) \X {mode0} \X {version}
           \X (IF HwVersionOf(version) >= 3 THEN ExtBytes ELSE {0})
           \X WordsFor(HwVersionOf(version)) \X WordsFor(HwVersionOf(version))
           \X Samples,
         {[at |-> 1, how |-> <<>>], [at |-> 2, how |-> <<>>]} \X {mode0}
           \X BOOLEAN \X Failures(7) \X ModeBytes \X {version}
           \X (IF HwVersionOf(version) >= 3 THEN ExtBytes ELSE {0})
           \X WordsFor(HwVersionOf(version)) \X WordsFor(HwVersionOf(version))
           \X Samples }
         : mode0 \in ModeBytes, version \in VersionWords }}

\* DebugProbe::new_from_probe_info: stlink.init()
NewFromProbeInfo ==
    /\ phase = "new"
    /\ \E r \in InitRuns :
       Finish(Call("init", DebugPort, 0, NoWords), r,
              IF r.res.ok THEN "ready" ELSE "failed")

SetSpeed ==
    /\ phase = "ready"
    /\ \E speed_khz \in Requests, fail \in Failures(2),
          words \in WordsFor(hw_version) :
       Finish(Call("set_speed", DebugPort, speed_khz, words),
              set_speed(Self, speed_khz, 0, fail, words), "ready")

Attach ==
    /\ phase = "ready"
    /\ \E fail \in Failures(5), mode \in ModeBytes,
          words \in WordsFor(hw_version) :
       Finish(Call("attach", DebugPort, 0, words),
              attach(Self, fail, mode, words), "ready")

Detach ==
    /\ phase = "ready"
    /\ \E fail \in Failures(2), mode \in ModeBytes :
       Finish(Call("detach", DebugPort, 0, NoWords),
              detach(Self, fail, mode), "ready")

TargetReset ==
    /\ phase = "ready"
    /\ \E fail \in Failures(1) :
       Finish(Call("target_reset", DebugPort, 0, NoWords),
              target_reset(Self, fail), "ready")

SelectProtocol ==
    /\ phase = "ready"
    /\ \E proto \in {"Swd", "Jtag"} :
       Finish(Call("select_protocol", DebugPort, CmdProto(proto), NoWords),
              select_protocol(Self, proto), "ready")

ReadRegister ==
    /\ phase = "ready"
    /\ \E port \in Ports :
       \E addr \in AddrsOf(port), fail \in FailuresOf(port) :
       Finish(Call("read_register", port, addr, NoWords),
              read_register(Self, port, addr, fail), "ready")

WriteRegister ==
    /\ phase = "ready"
    /\ \E port \in Ports :
       \E addr \in AddrsOf(port), fail \in FailuresOf(port) :
       Finish(Call("write_register", port, addr, NoWords),
              write_register(Self, port, addr, fail), "ready")

\* the driver leaves scope: after a failed init, or when its owner is done
Drop ==
    /\ phase \in {"ready", "failed"}
    /\ \E fail \in Failures(2), mode \in ModeBytes :
       Finish(Call("drop", DebugPort, 0, NoWords),
              drop(Self, fail, mode), "dropped")

\* construction, speed, mode and teardown
Next ==
    \/ NewFromProbeInfo
    \/ SetSpeed
    \/ Attach
    \/ Detach
    \/ TargetReset
    \/ SelectProtocol
    \/ Drop

Spec == Init /\ [][Next]_vars

\* a driver as new_from_probe_info hands it out: init has succeeded
InitDap ==
    \E r \in {x \in InitRuns : x.res.ok} :
       /\ phase = "ready"
       /\ hw_version = r.self.hw_version
       /\ jtag_version = r.self.jtag_version
       /\ protocol = r.self.protocol
       /\ swd_speed_khz = r.self.swd_speed_khz
       /\ jtag_speed_khz = r.self.jtag_speed_khz
       /\ current_ap = r.self.current_ap
       /\ opened = {}
       /\ last = [op |-> "init", port |-> DebugPort, addr |-> 0,
                  words |-> NoWords, cur |-> None, cmds |-> r.cmds,
                  res |-> r.res]
       /\ prev = NoPrev

\* DAP register accesses on a constructed driver
NextDap ==
    \/ ReadRegister
    \/ WriteRegister

SpecDap == InitDap /\ [][NextDap]_vars

\* every operation of the driver: construction, then either its
\* configuration and teardown or its use for register accesses
NextOps ==
    \/ NewFromProbeInfo
    \/ last.op \notin RegisterOps /\ SetSpeed
    \/ last.op \notin RegisterOps /\ Attach
    \/ last.op \notin RegisterOps /\ Detach
    \/ last.op \notin RegisterOps /\ TargetReset
    \/ last.op \notin RegisterOps /\ SelectProtocol
    \/ last.op \notin RegisterOps /\ Drop
    \/ last.op \in RegisterOps \cup {"init"} /\ ReadRegister
    \/ last.op \in RegisterOps \cup {"init"} /\ WriteRegister

SpecOps == Init /\ [][NextOps]_vars

----------------------------------------------------------------------------
(* The version query on its own: every 16-bit word the probe may answer.   *)

AllVersionWords == 0 .. 65535

\* a driver about to query the version, the probe's answer being the word
\* in last.addr
InitVersion ==
    /\ phase = "new"
    /\ hw_version = Fresh.hw_version
    /\ jtag_version = Fresh.jtag_version
    /\ protocol = Fresh.protocol
    /\ swd_speed_khz = Fresh.swd_speed_khz
    /\ jtag_speed_khz = Fresh.jtag_speed_khz
    /\ current_ap = Fresh.current_ap
    /\ opened = {}
    /\ prev = NoPrev
    /\ \E version \in AllVersionWords :
          last = [NewCall EXCEPT !.op = "version", !.addr = version]

\* self.get_version()
GetVersion ==
    /\ last.op = "version"
    /\ \E fail \in Failures(2), ext \in ExtBytes :
          LET r == get_version(Self, 0, fail, last.addr, ext)
          IN  /\ hw_version' = r.self.hw_version
              /\ jtag_version' = r.self.jtag_version
              /\ last' = [last EXCEPT !.op = "get_version",
                                      !.cmds = r.cmds, !.res = r.res]
    /\ UNCHANGED <<phase, protocol, swd_speed_khz, jtag_speed_khz,
                   current_ap, opened, prev>>

NextVersion == GetVersion

SpecVersion == InitVersion /\ [][NextVersion]_vars

----------------------------------------------------------------------------
(* The status validator on its own: every first byte of a response, with a *)
(* few second bytes.                                                       *)

StatusBytes == 0 .. 255

SecondBytes == {0, 1, 128}

\* a response buffer handed to check_status
InitStatus ==
    /\ phase = "new"
    /\ hw_version = Fresh.hw_version
    /\ jtag_version = Fresh.jtag_version
    /\ protocol = Fresh.protocol
    /\ swd_speed_khz = Fresh.swd_speed_khz
    /\ jtag_speed_khz = Fresh.jtag_speed_khz
    /\ current_ap = Fresh.current_ap
    /\ opened = {}
    /\ prev = NoPrev
    /\ \E b0 \in StatusBytes, b1 \in SecondBytes :
          last = [NewCall EXCEPT !.op = "response", !.words = <<b0, b1>>]

\* Self::check_status(&buf)
CheckStatus ==
    /\ last.op = "response"
    /\ last' = [last EXCEPT !.op = "check_status",
                            !.res = check_status(last.words)]
    /\ UNCHANGED <<phase, hw_version, jtag_version, protocol, swd_speed_khz,
                   jtag_speed_khz, current_ap, opened, prev>>

NextStatus == CheckStatus

SpecStatus == InitStatus /\ [][NextStatus]_vars

----------------------------------------------------------------------------
(* Properties of the DAP register accesses (checked under SpecDap).        *)

IsRegisterCall == last.op \in RegisterOps

IsApCall == IsRegisterCall /\ last.port[1] = "AP"

Xfer(op) ==
    IF op = "read_register" THEN "JTAG_READ_DAP_REG" ELSE "JTAG_WRITE_DAP_REG"

IsClose(e, ap) == e.cmd = "JTAG_CLOSE_AP_DBG" /\ e.arg = <<ap % 256>>

IsOpen(e, ap) == e.cmd = "JTAG_INIT_AP" /\ e.arg = <<ap % 256>>

IsXfer(e) ==
    e.cmd = Xfer(last.op) /\ e.arg = <<PortToU16(last.port), last.addr>>

Answered(e) == e.resp = <<128>>

\* C1: whenever current_ap = Some(x), the probe's AP session for x is open
\* (the last open/close command the probe accepted for it was an open).
C1_CurrentApIsOpen ==
    (phase = "ready" /\ current_ap # None) => (current_ap[1] % 256) \in opened

\* C2: at most one AP session is open on the probe in every reachable state.
C2_AtMostOneSession == Cardinality(opened) <= 1

C2_Witness ==
    /\ IsApCall
    /\ last.cur # None
    /\ last.cur # current_ap
    /\ last.res.ok
    /\ opened = {last.port[2] % 256}

\* C3 as stated: an access of AccessPort(n) right after an access of
\* AccessPort(m), m # n, issues exactly close(m), open(n) and then the
\* transfer; right after an access of the same AP it issues no open or close.
C3_Original ==
    (IsApCall /\ prev.op \in RegisterOps /\ prev.port[1] = "AP") =>
        IF prev.port # last.port
        THEN /\ Len(last.cmds) = 3
             /\ IsClose(last.cmds[1], prev.port[2])
             /\ IsOpen(last.cmds[2], last.port[2])
             /\ IsXfer(last.cmds[3])
        ELSE \A i \in 1 .. Len(last.cmds) :
                last.cmds[i].cmd \notin {"JTAG_INIT_AP", "JTAG_CLOSE_AP_DBG"}

\* C3 as amended: right after a successful access of AccessPort(m), an access
\* of AccessPort(n), m # n, issues close(m) first, open(n) next only if the
\* close succeeded, the transfer last only if the open succeeded (so a
\* successful call issued exactly close(m), open(n), transfer, in this
\* order); right after a successful access of the same AP it issues the
\* transfer command alone.
C3_Switching ==
    (IsApCall /\ prev.op \in RegisterOps /\ prev.port[1] = "AP" /\ prev.ok) =>
        IF prev.port # last.port
        THEN /\ Len(last.cmds) \in 1 .. 3
             /\ IsClose(last.cmds[1], prev.port[2])
             /\ Len(last.cmds) >= 2 =>
                  Answered(last.cmds[1]) /\ IsOpen(last.cmds[2], last.port[2])
             /\ Len(last.cmds) = 3 =>
                  Answered(last.cmds[2]) /\ IsXfer(last.cmds[3])
             /\ Len(last.cmds) < 3 => ~Answered(last.cmds[Len(last.cmds)])
             /\ last.res.ok => Len(last.cmds) = 3
        ELSE Len(last.cmds) = 1 /\ IsXfer(last.cmds[1])

C3_Witness ==
    /\ IsApCall
    /\ prev.op \in RegisterOps
    /\ prev.port[1] = "AP"
    /\ prev.ok
    /\ prev.port # last.port
    /\ last.res.ok
    /\ Len(last.cmds) = 3

\* C4 as stated: a status failure during read_register or write_register
\* leaves current_ap as it was before the call.
C4_Original ==
    (IsRegisterCall /\ last.res.err = "CommandFailed") => current_ap = last.cur

\* C4 as amended: a status failure on the close or the open command aborts
\* the call with current_ap as before the call; a status failure on the
\* transfer command aborts it with current_ap = Some(n) when the port is
\* AccessPort(n), and as before the call when the port is the Debug Port.
C4_StatusFailure ==
    (IsRegisterCall /\ last.res.err = "CommandFailed") =>
        LET f == last.cmds[Len(last.cmds)]
        IN  IF f.cmd \in {"JTAG_INIT_AP", "JTAG_CLOSE_AP_DBG"}
            THEN current_ap = last.cur
            ELSE IF last.port = DebugPort
                 THEN current_ap = last.cur
                 ELSE current_ap = Some(last.port[2])

C4_Witness ==
    /\ IsApCall
    /\ last.res.err = "CommandFailed"
    /\ IsXfer(last.cmds[Len(last.cmds)])
    /\ Len(last.cmds) = 3
    /\ current_ap # last.cur

\* C5: in an access of AccessPort(n), current_ap becomes Some(n) only when
\* the open(n) command of the call succeeded; with current_ap = Some(m),
\* m # n, the call closes m and then opens n; with current_ap = None it
\* opens n; when the close or the open fails current_ap is not set to
\* Some(n).
C5_SetAfterOpen ==
    IsApCall =>
        LET n == last.port[2]
            cmds == last.cmds
            refused == last.res.err = "JTagDoesNotSupportMultipleAP"
        IN  /\ (current_ap = Some(n) /\ last.cur # Some(n)) =>
                \E i \in 1 .. Len(cmds) : IsOpen(cmds[i], n) /\ Answered(cmds[i])
            /\ (last.cur # None /\ last.cur # Some(n) /\ ~refused) =>
                /\ Len(cmds) >= 1
                /\ IsClose(cmds[1], last.cur[1])
                /\ Answered(cmds[1]) => Len(cmds) >= 2 /\ IsOpen(cmds[2], n)
            /\ (last.cur = None /\ ~refused) =>
                Len(cmds) >= 1 /\ IsOpen(cmds[1], n)
            /\ (last.cur # Some(n) /\
                (refused \/ \E i \in 1 .. Len(cmds) :
                    /\ cmds[i].cmd \in {"JTAG_INIT_AP", "JTAG_CLOSE_AP_DBG"}
                    /\ ~Answered(cmds[i]))) =>
                current_ap # Some(n) /\ current_ap = last.cur

C5_Witness ==
    /\ IsApCall
    /\ last.cur # None
    /\ last.cur # Some(last.port[2])
    /\ Len(last.cmds) = 2
    /\ IsOpen(last.cmds[2], last.port[2])
    /\ ~Answered(last.cmds[2])
    /\ current_ap = last.cur

\* C6: a register access on the Debug Port whose address has a nonzero high
\* nibble (bits 4-7) fails with BlanksNotAllowedOnDPRegister and sends
\* nothing; with a zero high nibble it sends the transfer command and
\* succeeds exactly when that is answered with the success status.
C6_DebugPortBlank ==
    (IsRegisterCall /\ last.port = DebugPort) =>
        IF (last.addr \div 16) % 16 # 0
        THEN last.res.err = "BlanksNotAllowedOnDPRegister" /\ last.cmds = <<>>
        ELSE /\ Len(last.cmds) = 1
             /\ IsXfer(last.cmds[1])
             /\ last.res.ok <=> Answered(last.cmds[1])

C6_Witness ==
    /\ IsRegisterCall
    /\ last.port = DebugPort
    /\ last.addr = 260
    /\ last.res.ok

\* C7: open_ap and close_ap go through exactly when hw_version >= 3 or
\* jtag_version >= 28; otherwise a register access that needs an AP opened
\* or closed fails with JTagDoesNotSupportMultipleAP and sends no command.
C7_MultiApGate ==
    (IsApCall /\ last.cur # Some(last.port[2])) =>
        IF hw_version < 3 /\ jtag_version < 28
        THEN last.res.err = "JTagDoesNotSupportMultipleAP" /\ last.cmds = <<>>
        ELSE /\ last.res.err # "JTagDoesNotSupportMultipleAP"
             /\ Len(last.cmds) >= 1
             /\ last.cmds[1].cmd \in {"JTAG_INIT_AP", "JTAG_CLOSE_AP_DBG"}

C7_Witness ==
    /\ IsApCall
    /\ hw_version < 3
    /\ jtag_version < 28
    /\ last.res.err = "JTagDoesNotSupportMultipleAP"

\* C23: on a probe without multi-AP support (hardware < 3 and firmware <
\* 28) current_ap is None in every state, no AP session is open and no
\* register access sends an open or a close command; on every probe an
\* access of the Debug Port sends no open or close command and leaves
\* current_ap as it was.
C23_NoMultiAp ==
    /\ (hw_version < 3 /\ jtag_version < 28) =>
          /\ current_ap = None
          /\ opened = {}
          /\ IsRegisterCall =>
                \A i \in 1 .. Len(last.cmds) :
                   last.cmds[i].cmd \notin {"JTAG_INIT_AP", "JTAG_CLOSE_AP_DBG"}
    /\ (IsRegisterCall /\ last.port = DebugPort) =>
          /\ current_ap = last.cur
          /\ \A i \in 1 .. Len(last.cmds) :
                last.cmds[i].cmd \notin {"JTAG_INIT_AP", "JTAG_CLOSE_AP_DBG"}

C23_Witness ==
    /\ IsApCall
    /\ hw_version < 3
    /\ jtag_version < 28
    /\ prev.op = "write_register"
    /\ prev.port[1] = "AP"
    /\ prev.port # last.port
    /\ current_ap = None
    /\ last.cmds = <<>>

----------------------------------------------------------------------------
(* Properties of speed negotiation and of the hardware generations         *)
(* (checked under Spec).                                                   *)

IsSetSpeed == last.op = "set_speed"

\* the kHz values of the static table of a protocol mode
TableKhz(proto) == {e[1] : e \in Table(proto)}

\* C8: on hardware version 3 the available list is the first min(count, 10)
\* words from word 3 of the GET_COM_FREQ answer; set_speed fails with
\* UnsupportedSpeed when no entry of it is at most the request (the request
\* is below the minimum, or the list is empty), and otherwise sets, records
\* and returns the largest entry that is at most the request.
C8_V3Selection ==
    (IsSetSpeed /\ hw_version = 3 /\ Len(last.cmds) >= 1
       /\ Answered(last.cmds[1])) =>
        LET w == last.words
            count == IF w[3] < 10 THEN w[3] ELSE 10
            avail == {w[3 + i] : i \in 1 .. count}
            fit == {x \in avail : x <= last.addr}
        IN  IF fit = {}
            THEN last.res = Err("UnsupportedSpeed", last.addr)
                 /\ Len(last.cmds) = 1
            ELSE LET best == CHOOSE x \in fit : \A y \in fit : y <= x
                 IN  /\ Len(last.cmds) = 2
                     /\ last.cmds[2].cmd = "SET_COM_FREQ"
                     /\ last.cmds[2].arg = <<CmdProto(protocol), best>>
                     /\ Answered(last.cmds[2]) =>
                          last.res = Ok(best) /\ speed(Self) = best
                     /\ ~Answered(last.cmds[2]) => ~last.res.ok

C8_Witness ==
    /\ IsSetSpeed
    /\ hw_version = 3
    /\ last.words[3] > 10
    /\ last.res.ok
    /\ last.res.val = 60
    /\ last.addr = 130

\* C9: below hardware version 3, set_speed returns and records the kHz value
\* of an entry of the active mode's table, or fails; it fails with
\* UnsupportedSpeed when the table has no setting for the request, and the
\* recorded speeds are table entries in every state.
C9_V2Table ==
    /\ (phase = "ready" /\ hw_version < 3) =>
          /\ swd_speed_khz \in TableKhz("Swd")
          /\ jtag_speed_khz \in TableKhz("Jtag")
    /\ (IsSetSpeed /\ hw_version < 3) =>
          IF last.res.ok
          THEN /\ last.res.val \in TableKhz(protocol)
               /\ speed(Self) = last.res.val
               /\ Len(last.cmds) = 1
               /\ Answered(last.cmds[1])
          ELSE IF last.cmds = <<>>
               THEN last.res = Err("UnsupportedSpeed", last.addr)
               ELSE Len(last.cmds) = 1 /\ ~Answered(last.cmds[1])
                    /\ last.res.err \in {"USB", "CommandFailed"}

C9_Witness ==
    /\ IsSetSpeed
    /\ hw_version < 3
    /\ protocol = "Jtag"
    /\ last.addr = 2000
    /\ last.res = Ok(1120)

\* C10: a probe that reports hardware version >= 4 gets the typed
\* "unsupported hardware generation" error from init and from set_speed, so
\* that no reachable call sequence ends in a process abort.
C10_NoAbort == phase # "panicked"

----------------------------------------------------------------------------
(* Properties of initialisation, mode handling and teardown (checked under *)
(* Spec).                                                                  *)

IsInit == last.op = "init"

\* the position in the command log of the last command named cmd, 0 when
\* there is none
Position(cmd) ==
    LET at == {i \in 1 .. Len(last.cmds) : last.cmds[i].cmd = cmd}
    IN  IF at = {} THEN 0 ELSE CHOOSE i \in at : \A j \in at : j <= i

\* the probe answered the command at position i of the log
Arrived(i) == i > 0 /\ last.cmds[i].resp # <<>>

\* init has read the version fields: GET_VERSION was answered, and on
\* hardware >= 3 GET_VERSION_EXT as well
Extracted ==
    /\ IsInit
    /\ Arrived(Position("GET_VERSION"))
    /\ hw_version >= 3 => Arrived(Position("GET_VERSION_EXT"))

\* the position of the command that completed the extraction
ExtractedAt ==
    IF hw_version >= 3 THEN Position("GET_VERSION_EXT")
    ELSE Position("GET_VERSION")

\* C11: once the version fields are extracted, version negotiation fails
\* with JTAGNotSupportedOnProbe when the firmware version is 0, with
\* ProbeFirmwareOutdated when hardware < 3 and firmware < 24, and succeeds
\* otherwise (init goes on to its next command); a ready driver has
\* firmware # 0 and (hardware >= 3 or firmware >= 24).
C11_VersionChecks ==
    /\ Extracted =>
          IF jtag_version = 0
          THEN /\ last.res = Err("JTAGNotSupportedOnProbe", 0)
               /\ Len(last.cmds) = ExtractedAt
          ELSE IF hw_version < 3 /\ jtag_version < 24
          THEN /\ last.res = Err("ProbeFirmwareOutdated", 0)
               /\ Len(last.cmds) = ExtractedAt
          ELSE /\ last.res.err \notin {"JTAGNotSupportedOnProbe",
                                       "ProbeFirmwareOutdated"}
               /\ Len(last.cmds) > ExtractedAt
    /\ phase = "ready" =>
          jtag_version # 0 /\ (hw_version >= 3 \/ jtag_version >= 24)

C11_Witness ==
    /\ Extracted
    /\ hw_version = 2
    /\ jtag_version = 23
    /\ last.res.err = "ProbeFirmwareOutdated"
    /\ phase = "failed"

\* how many commands named cmd the last call sent
Count(cmd) ==
    Cardinality({i \in 1 .. Len(last.cmds) : last.cmds[i].cmd = cmd})

\* the number of commands of the idle-enter whose mode query is at
\* position i: the query, and an exit command in DFU and SWIM mode
IdleLen(i) ==
    IF Arrived(i) /\ last.cmds[i].resp[1] \in {0, 3} THEN 2 ELSE 1

\* that idle-enter met a transport error (on the query or on the exit)
IdleTransportError(i) == ~Arrived(i + IdleLen(i) - 1)

\* that idle-enter read a mode byte it does not know
IdleUnknownMode(i) == Arrived(i) /\ last.cmds[i].resp[1] \notin 0 .. 3

\* C12: when the first idle-enter of init fails with a transport error, init
\* resets the transport exactly once, fails if the reset fails, and
\* otherwise retries idle-enter exactly once, failing if that fails too;
\* when it fails with another error (unknown mode) init fails with it at
\* once, without reset or retry; when it succeeds there is no reset and no
\* second idle-enter.
C12_ResetRetry ==
    IsInit =>
        LET n == IdleLen(1)
        IN  IF IdleTransportError(1)
            THEN /\ Count("RESET") = 1
                 /\ last.cmds[n + 1].cmd = "RESET"
                 /\ IF ~Arrived(n + 1)
                    THEN /\ Len(last.cmds) = n + 1
                         /\ ~last.res.ok
                         /\ Count("GET_CURRENT_MODE") = 1
                    ELSE /\ Count("GET_CURRENT_MODE") = 2
                         /\ last.cmds[n + 2].cmd = "GET_CURRENT_MODE"
                         /\ IF IdleTransportError(n + 2)
                            THEN /\ last.res = Err("USB", 0)
                                 /\ Len(last.cmds) = n + 1 + IdleLen(n + 2)
                            ELSE IF IdleUnknownMode(n + 2)
                            THEN /\ last.res = Err("UnknownMode", 0)
                                 /\ Len(last.cmds) = n + 2
                            ELSE /\ Len(last.cmds) > n + 1 + IdleLen(n + 2)
                                 /\ last.cmds[n + 2 + IdleLen(n + 2)].cmd
                                      = "GET_VERSION"
            ELSE /\ Count("RESET") = 0
                 /\ Count("GET_CURRENT_MODE") = 1
                 /\ IF IdleUnknownMode(1)
                    THEN /\ last.res = Err("UnknownMode", 0)
                         /\ Len(last.cmds) = 1
                    ELSE /\ Len(last.cmds) > n
                         /\ last.cmds[n + 1].cmd = "GET_VERSION"

C12_Witness ==
    /\ IsInit
    /\ IdleLen(1) = 2
    /\ IdleTransportError(1)
    /\ Count("RESET") = 1
    /\ Count("GET_CURRENT_MODE") = 2
    /\ last.res.ok
    /\ phase = "ready"

\* the configured speed of the selected mode
Configured == IF protocol = "Swd" THEN swd_speed_khz ELSE jtag_speed_khz

\* what a speed negotiation for khz sends and returns on hardware < 3, as
\* the commands of c after position n and the result r
NegotiatedV2(c, n, r, khz) ==
    /\ Len(c) = n + 1
    /\ c[n + 1].cmd = (IF protocol = "Swd" THEN "SWD_SET_FREQ"
                                           ELSE "JTAG_SET_FREQ")
    /\ c[n + 1].arg = <<find_setting(Table(protocol), khz)[1] % 256>>
    /\ r.ok <=> c[n + 1].resp = <<128>>

\* the same on hardware 3, w being the probe's answer to GET_COM_FREQ
NegotiatedV3(c, n, r, khz, w) ==
    /\ Len(c) > n
    /\ c[n + 1].cmd = "GET_COM_FREQ"
    /\ c[n + 1].arg = <<CmdProto(protocol)>>
    /\ IF c[n + 1].resp # <<128>>
       THEN Len(c) = n + 1 /\ ~r.ok
       ELSE LET count == IF w[3] < 10 THEN w[3] ELSE 10
                fit == {x \in {w[3 + i] : i \in 1 .. count} : x <= khz}
            IN  IF fit = {}
                THEN Len(c) = n + 1 /\ r = Err("UnsupportedSpeed", khz)
                ELSE /\ Len(c) = n + 2
                     /\ c[n + 2].cmd = "SET_COM_FREQ"
                     /\ c[n + 2].arg =
                          <<CmdProto(protocol),
                            CHOOSE x \in fit : \A y \in fit : y <= x>>
                     /\ r.ok <=> c[n + 2].resp = <<128>>

\* C14: attach sends the mode query and, in DFU or SWIM mode, the one exit
\* command; then the mode-entry command of the selected mode; then, only
\* when that was answered with the success status, the speed negotiation
\* for the configured speed of the selected mode (which on hardware >= 4
\* aborts before it sends anything); a step that fails is the last one
\* sent and its error is returned.
C14_AttachOrder ==
    [][last'.op = "attach" =>
        LET c == last'.cmds
            r == last'.res
            n == IF c[1].resp # <<>> /\ c[1].resp[1] \in {0, 3} THEN 2 ELSE 1
        IN  /\ c[1].cmd = "GET_CURRENT_MODE"
            /\ n = 2 => c[2].cmd = (IF c[1].resp[1] = 0 THEN "DFU_EXIT"
                                                         ELSE "SWIM_EXIT")
            /\ IF c[n].resp = <<>>
               THEN Len(c) = n /\ r = Err("USB", 0)
               ELSE IF c[1].resp[1] \notin 0 .. 3
               THEN Len(c) = 1 /\ r = Err("UnknownMode", 0)
               ELSE /\ Len(c) > n
                    /\ c[n + 1].cmd =
                         (IF protocol = "Jtag"
                          THEN "JTAG_ENTER_JTAG_NO_CORE_RESET"
                          ELSE "JTAG_ENTER_SWD")
                    /\ protocol' = protocol
                    /\ IF c[n + 1].resp # <<128>>
                       THEN /\ Len(c) = n + 1
                            /\ r.err \in {"USB", "CommandFailed"}
                       ELSE IF hw_version < 3
                       THEN NegotiatedV2(c, n + 1, r, Configured)
                       ELSE IF hw_version = 3
                       THEN NegotiatedV3(c, n + 1, r, Configured,
                                         last'.words)
                       ELSE Len(c) = n + 1 /\ r.err = "panic"]_vars

C14_Witness ==
    /\ last.op = "attach"
    /\ protocol = "Jtag"
    /\ hw_version = 3
    /\ Len(last.cmds) = 5
    /\ last.cmds[2].cmd = "SWIM_EXIT"
    /\ last.cmds[3].cmd = "JTAG_ENTER_JTAG_NO_CORE_RESET"
    /\ last.cmds[5].cmd = "SET_COM_FREQ"
    /\ last.res.ok

\* the calls that consist of one idle-enter
IdleOps == {"detach", "drop"}

\* C15: an idle-enter sends the mode query once; in DFU mode it then sends
\* the DFU-exit command and nothing else, in SWIM mode the SWIM-exit command
\* and nothing else, in mass-storage and JTAG/SWD mode nothing and
\* succeeds, and for an unknown mode byte nothing and fails with
\* UnknownMode; detach (and teardown) send the commands of one idle-enter
\* and no other, detach returning its result; in no operation is an exit
\* command sent other than right after the mode query that read its mode.
C15_EnterIdle ==
    /\ last.op \in IdleOps =>
          /\ Count("GET_CURRENT_MODE") = 1
          /\ last.cmds[1].cmd = "GET_CURRENT_MODE"
          /\ IF ~Arrived(1) THEN Len(last.cmds) = 1
             ELSE LET mode == last.cmds[1].resp[1]
                  IN  IF mode = 0
                      THEN Len(last.cmds) = 2 /\ last.cmds[2].cmd = "DFU_EXIT"
                      ELSE IF mode = 3
                      THEN Len(last.cmds) = 2 /\ last.cmds[2].cmd = "SWIM_EXIT"
                      ELSE Len(last.cmds) = 1
    /\ last.op = "detach" =>
          IF ~Arrived(Len(last.cmds)) THEN last.res = Err("USB", 0)
          ELSE IF last.cmds[1].resp[1] \notin 0 .. 3
          THEN last.res = Err("UnknownMode", 0)
          ELSE last.res = Ok(0)
    /\ last.op \in {"attach", "init"} =>
          /\ last.cmds[1].cmd = "GET_CURRENT_MODE"
          /\ Count("GET_CURRENT_MODE") = 1 + Count("RESET")
             \/ (Count("RESET") = 1 /\ ~Arrived(Len(last.cmds)))
    /\ \A j \in 1 .. Len(last.cmds) :
          /\ last.cmds[j].cmd = "DFU_EXIT" =>
                j > 1 /\ last.cmds[j - 1] = Entry("GET_CURRENT_MODE", <<>>, <<0>>)
          /\ last.cmds[j].cmd = "SWIM_EXIT" =>
                j > 1 /\ last.cmds[j - 1] = Entry("GET_CURRENT_MODE", <<>>, <<3>>)
          /\ last.cmds[j].cmd = "GET_CURRENT_MODE" =>
                IF ~Arrived(j) THEN TRUE
                ELSE IF last.cmds[j].resp[1] = 0
                THEN Len(last.cmds) > j /\ last.cmds[j + 1].cmd = "DFU_EXIT"
                ELSE IF last.cmds[j].resp[1] = 3
                THEN Len(last.cmds) > j /\ last.cmds[j + 1].cmd = "SWIM_EXIT"
                ELSE IF last.cmds[j].resp[1] \notin 0 .. 3
                THEN Len(last.cmds) = j
                ELSE TRUE

C15_Witness ==
    /\ last.op = "detach"
    /\ last.cmds = <<Entry("GET_CURRENT_MODE", <<>>, <<3>>),
                     Entry("SWIM_EXIT", <<>>, <<0>>)>>
    /\ last.res.ok

\* C16: select_protocol succeeds, sends nothing, sets protocol to its
\* argument and leaves both speeds, current_ap, the hardware version and the
\* firmware version as they were.
C16_SelectProtocol ==
    [][last'.op = "select_protocol" =>
        /\ last'.res = Ok(0)
        /\ last'.cmds = <<>>
        /\ protocol' = (IF last'.addr = 0 THEN "Swd" ELSE "Jtag")
        /\ swd_speed_khz' = swd_speed_khz
        /\ jtag_speed_khz' = jtag_speed_khz
        /\ current_ap' = current_ap
        /\ hw_version' = hw_version
        /\ jtag_version' = jtag_version
        /\ phase' = "ready"]_vars

C16_Witness ==
    /\ last.op = "select_protocol"
    /\ last.addr = 1
    /\ protocol = "Jtag"
    /\ swd_speed_khz = 4000
    /\ hw_version = 3

\* C17: teardown sends the commands of one idle-enter (one mode query, at
\* most one exit command, no reset) and completes without an error whether
\* these succeed, meet a transport error or read an unknown mode.
C17_Teardown ==
    last.op = "drop" =>
        /\ last.res = Ok(0)
        /\ phase = "dropped"
        /\ Count("GET_CURRENT_MODE") = 1
        /\ Count("RESET") = 0
        /\ Len(last.cmds) = IdleLen(1)
        /\ \A i \in 1 .. Len(last.cmds) :
              last.cmds[i].cmd \in {"GET_CURRENT_MODE", "DFU_EXIT", "SWIM_EXIT"}

C17_Witness ==
    /\ last.op = "drop"
    /\ last.cmds = <<Entry("GET_CURRENT_MODE", <<>>, <<0>>),
                     Entry("DFU_EXIT", <<>>, <<>>)>>
    /\ last.res.ok
    /\ phase = "dropped"

C22_AssertionsHold ==
    /\ last.res # AssertFailed(<<>>).res
    /\ \A i \in 1 .. Len(last.cmds) :
          last.cmds[i].cmd \in {"GET_COM_FREQ", "SET_COM_FREQ"} =>
              hw_version = 3 /\ last.op \in {"init", "set_speed", "attach"}
    /\ (last.op \in {"set_speed", "attach"} /\ hw_version # 3) =>
          Count("GET_COM_FREQ") = 0 /\ Count("SET_COM_FREQ") = 0

C22_Witness ==
    /\ last.op = "attach"
    /\ hw_version = 3
    /\ Count("GET_COM_FREQ") = 1
    /\ Count("SET_COM_FREQ") = 1
    /\ last.res.ok

----------------------------------------------------------------------------
(* Properties of all operations (checked under SpecOps).                   *)

\* commands whose answer carries no status byte: the driver does not call
\* check_status on it
NoStatus ==
    {"GET_CURRENT_MODE", "DFU_EXIT", "SWIM_EXIT", "GET_VERSION",
     "GET_VERSION_EXT", "GET_TARGET_VOLTAGE", "RESET"}

\* the command at position i of the last call met a transport error or was
\* answered with a status other than success
Failed(i) ==
    \/ last.cmds[i].resp = <<>>
    \/ last.cmds[i].cmd \notin NoStatus /\ last.cmds[i].resp # <<128>>

\* the error the driver reports for it
ErrorOf(i) ==
    IF last.cmds[i].resp = <<>> THEN Err("USB", 0)
    ELSE IF last.cmds[i].resp[1] \in KnownStatus
         THEN Err("CommandFailed", last.cmds[i].resp[1])
         ELSE Err("CommandFailed", -1)

PublicOps ==
    {"attach", "detach", "target_reset", "set_speed", "read_register",
     "write_register"}

\* C13: in attach, detach, target_reset, set_speed, read_register and
\* write_register the first command that meets a transport error or a
\* non-success status is the last command of the call, and the call returns
\* that error; in init the only command sent after a failed one is the
\* reset that follows the first idle-enter.
C13_NoRetry ==
    /\ last.op \in PublicOps =>
          \A i \in 1 .. Len(last.cmds) :
             Failed(i) => i = Len(last.cmds) /\ last.res = ErrorOf(i)
    /\ IsInit =>
          \A i \in 1 .. Len(last.cmds) :
             Failed(i) =>
                \/ i = Len(last.cmds) /\ last.res = ErrorOf(i)
                \/ /\ i = IdleLen(1)
                   /\ last.cmds[i + 1].cmd = "RESET"
                   /\ Count("RESET") = 1

C13_Witness ==
    /\ last.op = "write_register"
    /\ Len(last.cmds) = 2
    /\ last.cmds[1].cmd = "JTAG_CLOSE_AP_DBG"
    /\ last.cmds[2].cmd = "JTAG_INIT_AP"
    /\ last.cmds[2].resp = <<17>>
    /\ last.res = Err("CommandFailed", 17)

\* the operations that take no part in speed negotiation
NoSpeedOps ==
    {"select_protocol", "detach", "target_reset", "read_register",
     "write_register"}

\* C20: once the driver is constructed, a set_speed that succeeds stores
\* the speed it returns in the field of the selected mode and leaves the
\* other field as it was; a set_speed that fails leaves both as they were;
\* select_protocol, detach, target_reset, read_register and write_register
\* leave both as they were; so the fields change in set_speed and attach
\* (which runs the speed negotiation) only.
C20_SpeedFrame ==
    [][/\ last'.op \in NoSpeedOps =>
             swd_speed_khz' = swd_speed_khz /\ jtag_speed_khz' = jtag_speed_khz
       /\ last'.op = "set_speed" =>
             IF last'.res.ok
             THEN IF protocol = "Swd"
                  THEN /\ swd_speed_khz' = last'.res.val
                       /\ jtag_speed_khz' = jtag_speed_khz
                  ELSE /\ jtag_speed_khz' = last'.res.val
                       /\ swd_speed_khz' = swd_speed_khz
             ELSE swd_speed_khz' = swd_speed_khz
                  /\ jtag_speed_khz' = jtag_speed_khz
       /\ (phase # "new" /\ (swd_speed_khz' # swd_speed_khz
                              \/ jtag_speed_khz' # jtag_speed_khz)) =>
             last'.op \in {"set_speed", "attach"}]_vars

C20_Witness ==
    /\ last.op = "set_speed"
    /\ protocol = "Jtag"
    /\ last.addr = 30000
    /\ last.res = Ok(18000)
    /\ jtag_speed_khz = 18000
    /\ swd_speed_khz = 1800

----------------------------------------------------------------------------
(* Properties of the status validator (checked under SpecStatus).          *)

\* C18: check_status returns success when byte 0 of the response is the
\* success code, CommandFailed carrying the code when byte 0 is another
\* known code, and CommandFailed carrying Status::Unknown (written -1) when
\* byte 0 is no known code; the other bytes do not enter into it.
C18_CheckStatus ==
    last.op = "check_status" =>
        LET b == last.words[1]
        IN  IF b = 128 THEN last.res = Ok(0)
            ELSE IF b \in (1 .. 14) \cup (16 .. 26) \cup {32, 65, 66}
            THEN last.res = Err("CommandFailed", b)
            ELSE last.res = Err("CommandFailed", -1)

C18_Witness ==
    /\ last.op = "check_status"
    /\ last.words = <<17, 128>>
    /\ last.res = Err("CommandFailed", 17)

----------------------------------------------------------------------------
(* Properties of the version query (checked under SpecVersion).            *)

\* C19: for the 16-bit word w answered to GET_VERSION the hardware version
\* is (w >> 12) & 0x0F and the firmware version (w >> 6) & 0x3F; the
\* extended query is sent exactly when the hardware version is >= 3, and
\* when it is answered the firmware version is byte 2 of its answer.
C19_VersionFields ==
    (last.op = "get_version" /\ Arrived(1)) =>
        LET w == last.addr
            hw == (w \div 4096) % 16
            fw == (w \div 64) % 64
        IN  /\ last.cmds[1].cmd = "GET_VERSION"
            /\ hw_version = hw
            /\ hw >= 3 <=> Count("GET_VERSION_EXT") = 1
            /\ Count("GET_VERSION_EXT") <= 1
            /\ IF hw >= 3
               THEN /\ Len(last.cmds) = 2
                    /\ last.cmds[2].cmd = "GET_VERSION_EXT"
                    /\ jtag_version = IF Arrived(2) THEN last.cmds[2].resp[1]
                                                   ELSE fw
               ELSE Len(last.cmds) = 1 /\ jtag_version = fw

C19_Witness ==
    /\ last.op = "get_version"
    /\ last.addr = 12688
    /\ hw_version = 3
    /\ jtag_version = 6
    /\ Len(last.cmds) = 2
    /\ ~Arrived(2)

====
